---- MODULE Spec2Model ----
(***************************************************************************)
(* Budget request service: the tRPC procedures of appRouter over the four *)
(* tables of db/schema.ts, called one at a time and, for update and        *)
(* submit, as interleaved database statements; and BudgetRequestForm, the  *)
(* client that builds the input of createBudgetRequest.                    *)
(*                                                                         *)
(* Money.  A JavaScript number holding an amount is modelled as an integer *)
(* count of thousandths of the currency unit (2000 is 2.00, 5 is 0.005),   *)
(* so that the 0.01 tolerance of the reconciliation and the two-decimal    *)
(* scale of the numeric columns are both visible.  A numeric(p, 2) column  *)
(* holds an integer count of hundredths.  Binary floating-point rounding   *)
(* of the products and of the difference is not modelled.                  *)
(*                                                                         *)
(* Time.  new Date() and the columns' defaultNow() read now, which is the  *)
(* time of the previous reading (the variable clock) or later.  Only the   *)
(* order of two times matters, so "later" is one unit later.               *)
(*                                                                         *)
(* A nullable column or input holds Null or Some(v).                       *)
(***************************************************************************)
EXTENDS Integers, Sequences, FiniteSets, TLC

VARIABLES
    departments,        \* departmentsTable: id -> row
    budget_categories,  \* budgetCategoriesTable: id -> row
    budget_requests,    \* budgetRequestsTable: id -> row
    budget_line_items,  \* budgetLineItemsTable: id -> row
    request_seq,        \* last value drawn from budget_requests.id (serial)
    line_item_seq,      \* last value drawn from budget_line_items.id (serial)
    clock,              \* the latest time a call has read and stored
    calls,              \* number of procedure calls made so far
    call,               \* the last procedure call: its name and input
    response,           \* what the last procedure call returned or threw
    formData,           \* BudgetRequestForm: the form state
    errors,             \* BudgetRequestForm: the keys that hold an error message
    submitSuccess,      \* BudgetRequestForm: the success banner is shown
    timers,             \* BudgetRequestForm: pending setTimeout(reset, 3000)
    events,             \* BudgetRequestForm: the events handled since mounting
    currentYear,        \* BudgetRequestForm: new Date().getFullYear() at load
    pending             \* handler calls between two of their statements

vars == <<departments, budget_categories, budget_requests, budget_line_items,
          request_seq, line_item_seq, clock, calls, call, response,
          formData, errors, submitSuccess, timers, events, currentYear, pending>>

\* the state outside the database and the last call
client == <<formData, errors, submitSuccess, timers, events, currentYear, pending>>

tables == <<budget_requests, budget_line_items>>

(***************************************************************************)
(* Bounds of the exploration.                                              *)
(***************************************************************************)
MaxCalls == 4
MaxEvents == 6
MaxClock == 1
MaxRequests == 2

(***************************************************************************)
(* Values.                                                                 *)
(***************************************************************************)
Null == <<>>
Some(v) == <<v>>

Empty == [f \in {} |-> f]

Abs(x) == IF x < 0 THEN 0 - x ELSE x

budgetRequestStatusSchema == {"draft", "processing", "review", "approved", "rejected"}

budgetRequestPrioritySchema == {"low", "medium", "high", "critical"}

\* 0.01, in thousandths
Tolerance == 10

\* thousandths per hundredth: the numeric columns have scale 2
NumericUnit == 10

\* A number written into a numeric(p, 2) column: rounded to the nearest
\* hundredth, halves away from zero.
toNumeric(x) ==
    IF x >= 0 THEN (2 * x + NumericUnit) \div (2 * NumericUnit)
    ELSE 0 - ((2 * (0 - x) + NumericUnit) \div (2 * NumericUnit))

\* parseFloat of the text of a numeric(p, 2) value
parseFloat(n) == n * NumericUnit

\* { ...row, requested_amount: parseFloat(row.requested_amount) }
toBudgetRequest(row) == [row EXCEPT !.requested_amount = parseFloat(@)]

(***************************************************************************)
(* Responses of a procedure call.                                          *)
(***************************************************************************)
NoCall == [op |-> "none", input |-> Empty]

NoResponse == [kind |-> "none", message |-> "", rows |-> <<>>]

Returned(row) == [kind |-> "ok", message |-> "", rows |-> <<row>>]

ReturnedNull == [kind |-> "null", message |-> "", rows |-> <<>>]

Thrown(message) == [kind |-> "error", message |-> message, rows |-> <<>>]

ValidationError == "BAD_REQUEST: input validation failed"

AmountMismatch == "Requested amount does not match sum of line items"

DepartmentNotFound == "Department not found"

CategoryNotFound == "Budget category not found"

StoreFailure == "store failure"

(***************************************************************************)
(* createBudgetRequestInputSchema                                          *)
(***************************************************************************)
lineItemSchema(item) ==
    /\ Len(item.description) >= 1
    /\ item.quantity > 0
    /\ item.unit_price > 0

\* the schema without its refinement on the two dates
createBudgetRequestInputSchemaWithoutRefine(input) ==
    /\ Len(input.title) >= 1 /\ Len(input.title) <= 200
    /\ Len(input.description) >= 1 /\ Len(input.description) <= 2000
    /\ input.department_id > 0
    /\ input.category_id > 0
    /\ input.requested_amount > 0
    /\ Len(input.justification) >= 1 /\ Len(input.justification) <= 2000
    /\ input.priority \in budgetRequestPrioritySchema
    /\ input.fiscal_year >= 2020 /\ input.fiscal_year <= 2050
    /\ Len(input.submitted_by) >= 1
    /\ \A i \in 1..Len(input.line_items) : lineItemSchema(input.line_items[i])
    /\ Len(input.line_items) >= 1

createBudgetRequestInputSchema(input) ==
    /\ Len(input.title) >= 1 /\ Len(input.title) <= 200
    /\ Len(input.description) >= 1 /\ Len(input.description) <= 2000
    /\ input.department_id > 0
    /\ input.category_id > 0
    /\ input.requested_amount > 0
    /\ Len(input.justification) >= 1 /\ Len(input.justification) <= 2000
    /\ input.priority \in budgetRequestPrioritySchema
    /\ input.fiscal_year >= 2020 /\ input.fiscal_year <= 2050
    /\ Len(input.submitted_by) >= 1
    /\ \A i \in 1..Len(input.line_items) : lineItemSchema(input.line_items[i])
    /\ Len(input.line_items) >= 1
    /\ input.expected_end_date >= input.expected_start_date

(***************************************************************************)
(* createBudgetRequest                                                     *)
(***************************************************************************)
RECURSIVE reduce(_, _)
reduce(items, sum) ==
    IF items = <<>> THEN sum
    ELSE reduce(Tail(items), sum + Head(items).quantity * Head(items).unit_price)

totalLineItemsAmount(input) == reduce(input.line_items, 0)

\* the comparison without Math.abs
amountMismatchOneSided(input) ==
    input.requested_amount - totalLineItemsAmount(input) > Tolerance

amountMismatch(input) ==
    Abs(input.requested_amount - totalLineItemsAmount(input)) > Tolerance

\* tx.insert(budgetRequestsTable).values({...}).returning()
insertedBudgetRequest(input, id, now) ==
    [id |-> id,
     title |-> input.title,
     description |-> input.description,
     department_id |-> input.department_id,
     category_id |-> input.category_id,
     requested_amount |-> toNumeric(input.requested_amount),
     justification |-> input.justification,
     priority |-> input.priority,
     status |-> "draft",
     fiscal_year |-> input.fiscal_year,
     expected_start_date |-> input.expected_start_date,
     expected_end_date |-> input.expected_end_date,
     submitted_by |-> input.submitted_by,
     submitted_at |-> Null,
     reviewed_by |-> Null,
     reviewed_at |-> Null,
     review_notes |-> Null,
     created_at |-> now,
     updated_at |-> now]

\* input.line_items.map(item => ({...})) as stored by tx.insert(budgetLineItemsTable)
lineItemsData(item, budget_request_id, id, now) ==
    [id |-> id,
     budget_request_id |-> budget_request_id,
     description |-> item.description,
     quantity |-> item.quantity,
     unit_price |-> toNumeric(item.unit_price),
     total_amount |-> toNumeric(item.quantity * item.unit_price),
     notes |-> item.notes,
     created_at |-> now]

insertedLineItems(input, budget_request_id, now) ==
    [id \in (line_item_seq + 1)..(line_item_seq + Len(input.line_items)) |->
        lineItemsData(input.line_items[id - line_item_seq], budget_request_id, id, now)]

\* the two inserts outside a transaction: the request row stays when the
\* line item insert raises
transactionWithoutRollback(input, lineItemsFail, now) ==
    LET id == request_seq + 1
        budgetRequest == insertedBudgetRequest(input, id, now)
    IN  [budget_requests |-> budget_requests @@ (id :> budgetRequest),
         budget_line_items |->
             IF lineItemsFail THEN budget_line_items
             ELSE budget_line_items @@ insertedLineItems(input, id, now),
         request_seq |-> id,
         line_item_seq |->
             IF lineItemsFail THEN line_item_seq
             ELSE line_item_seq + Len(input.line_items),
         clock |-> now,
         response |-> IF lineItemsFail THEN Thrown(StoreFailure)
                      ELSE Returned(toBudgetRequest(budgetRequest))]

\* What the tables hold once the transaction has ended.  The request insert
\* draws the next id; when the line item insert raises, the transaction is
\* rolled back and only the drawn id is gone.
transaction(input, lineItemsFail, now) ==
    LET id == request_seq + 1
        budgetRequest == insertedBudgetRequest(input, id, now)
    IN  IF lineItemsFail
        THEN [budget_requests |-> budget_requests,
              budget_line_items |-> budget_line_items,
              request_seq |-> id,
              line_item_seq |-> line_item_seq,
              clock |-> clock,
              response |-> Thrown(StoreFailure)]
        ELSE [budget_requests |-> budget_requests @@ (id :> budgetRequest),
              budget_line_items |-> budget_line_items @@ insertedLineItems(input, id, now),
              request_seq |-> id,
              line_item_seq |-> line_item_seq + Len(input.line_items),
              clock |-> now,
              response |-> Returned(toBudgetRequest(budgetRequest))]

rejected(message) ==
    [budget_requests |-> budget_requests,
     budget_line_items |-> budget_line_items,
     request_seq |-> request_seq,
     line_item_seq |-> line_item_seq,
     clock |-> clock,
     response |-> Thrown(message)]

\* the handler with the department lookup before the reconciliation
createBudgetRequestDepartmentFirst(input, lineItemsFail, now) ==
    IF input.department_id \notin DOMAIN departments THEN rejected(DepartmentNotFound)
    ELSE IF amountMismatch(input) THEN rejected(AmountMismatch)
    ELSE IF input.category_id \notin DOMAIN budget_categories THEN rejected(CategoryNotFound)
    ELSE transaction(input, lineItemsFail, now)

\* the handler without the category lookup
createBudgetRequestWithoutCategoryCheck(input, lineItemsFail, now) ==
    IF amountMismatch(input) THEN rejected(AmountMismatch)
    ELSE IF input.department_id \notin DOMAIN departments THEN rejected(DepartmentNotFound)
    ELSE transaction(input, lineItemsFail, now)

createBudgetRequest(input, lineItemsFail, now) ==
    IF amountMismatch(input) THEN rejected(AmountMismatch)
    ELSE IF input.department_id \notin DOMAIN departments THEN rejected(DepartmentNotFound)
    ELSE IF input.category_id \notin DOMAIN budget_categories THEN rejected(CategoryNotFound)
    ELSE transaction(input, lineItemsFail, now)

\* appRouter.createBudgetRequest: the input schema, then the handler
CreateBudgetRequest(input, lineItemsFail, now) ==
    /\ calls < MaxCalls
    /\ request_seq < MaxRequests
    /\ calls' = calls + 1
    /\ call' = [op |-> "createBudgetRequest", input |-> input]
    /\ LET out == IF createBudgetRequestInputSchema(input)
                  THEN createBudgetRequest(input, lineItemsFail, now)
                  ELSE rejected(ValidationError)
       IN  /\ budget_requests' = out.budget_requests
           /\ budget_line_items' = out.budget_line_items
           /\ request_seq' = out.request_seq
           /\ line_item_seq' = out.line_item_seq
           /\ clock' = out.clock
           /\ response' = out.response
    /\ UNCHANGED <<departments, budget_categories>>

(***************************************************************************)
(* Inputs of createBudgetRequest.                                          *)
(***************************************************************************)
Item(quantity, unit_price) ==
    [description |-> "Item", quantity |-> quantity, unit_price |-> unit_price, notes |-> Null]

BaseCreateInput ==
    [title |-> "Title",
     description |-> "Description",
     department_id |-> 1,
     category_id |-> 1,
     requested_amount |-> 2000,
     justification |-> "Justification",
     priority |-> "medium",
     fiscal_year |-> 2024,
     expected_start_date |-> 1,
     expected_end_date |-> 2,
     submitted_by |-> "Alice",
     line_items |-> <<Item(2, 1000)>>]

\* requested_amount with line_items: equal; off by exactly 0.01, with three
\* units at 0.005 among the items; off by 0.015 above and below
AmountCases ==
    { <<2000, <<Item(2, 1000)>> >>,
      <<2025, <<Item(2, 1000), Item(3, 5)>> >>,
      <<2030, <<Item(2, 1000), Item(3, 5)>> >>,
      <<2000, <<Item(2, 1000), Item(3, 5)>> >> }

\* department 3 and category 3 are not stored; 2015 is off by 0.015 from the
\* base input's line items; the last three inputs fail the schema
CreateInputs ==
    { [BaseCreateInput EXCEPT !.requested_amount = a[1], !.line_items = a[2]] :
        a \in AmountCases }
    \cup { [BaseCreateInput EXCEPT !.department_id = 3],
           [BaseCreateInput EXCEPT !.category_id = 3],
           [BaseCreateInput EXCEPT !.department_id = 3, !.category_id = 3],
           [BaseCreateInput EXCEPT !.department_id = 3, !.requested_amount = 2015],
           [BaseCreateInput EXCEPT !.title = ""],
           [BaseCreateInput EXCEPT !.expected_end_date = 0],
           [BaseCreateInput EXCEPT !.requested_amount = 0, !.line_items = <<>>] }

(***************************************************************************)
(* updateBudgetRequestInputSchema.  An input is a function from the names  *)
(* of the fields it supplies to their values: a field is undefined when it *)
(* is not in the input's domain.                                           *)
(***************************************************************************)
defined(input, f) == f \in DOMAIN input

\* z.string().max(max).optional(), without min(1)
textSchemaWithoutMin(input, f, max) ==
    defined(input, f) => Len(input[f]) <= max

textSchema(input, f, max) ==
    defined(input, f) => (Len(input[f]) >= 1 /\ Len(input[f]) <= max)

positiveSchema(input, f) == defined(input, f) => input[f] > 0

updateBudgetRequestInputSchema(input) ==
    /\ defined(input, "id") /\ input.id > 0
    /\ textSchema(input, "title", 200)
    /\ textSchema(input, "description", 2000)
    /\ positiveSchema(input, "department_id")
    /\ positiveSchema(input, "category_id")
    /\ positiveSchema(input, "requested_amount")
    /\ textSchema(input, "justification", 2000)
    /\ defined(input, "priority") => input.priority \in budgetRequestPrioritySchema
    /\ defined(input, "fiscal_year") => (input.fiscal_year >= 2020 /\ input.fiscal_year <= 2050)
    /\ defined(input, "status") => input.status \in budgetRequestStatusSchema

getBudgetRequestByIdInputSchema(input) == input.id > 0

(***************************************************************************)
(* updateBudgetRequest                                                     *)
(***************************************************************************)
\* an undefined review field written as null
providedOrNull(input, f) ==
    IF defined(input, f) THEN f :> input[f]
    ELSE IF f \in {"review_notes", "reviewed_by"} THEN f :> Null
    ELSE Empty

\* if (input.f !== undefined) { updateData.f = input.f; }
provided(input, f) == IF defined(input, f) THEN f :> input[f] ELSE Empty

providedAmount(input) ==
    IF defined(input, "requested_amount")
    THEN "requested_amount" :> toNumeric(input.requested_amount)
    ELSE Empty

\* the transition to processing without its stamp
submittedAtStampNever(existing, input, now) == Empty

\* Set submitted_at when transitioning to processing
submittedAtStamp(existing, input, now) ==
    IF input.status = "processing" /\ existing.submitted_at = Null
    THEN "submitted_at" :> Some(now)
    ELSE Empty

\* the stamp without the test for null
reviewedAtStampAlways(existing, input, now) ==
    IF input.status \in {"approved", "rejected"}
    THEN "reviewed_at" :> Some(now)
    ELSE Empty

\* Set reviewed_at when transitioning to approved/rejected
reviewedAtStamp(existing, input, now) ==
    IF input.status \in {"approved", "rejected"} /\ existing.reviewed_at = Null
    THEN "reviewed_at" :> Some(now)
    ELSE Empty

statusTransition(existing, input, now) ==
    IF defined(input, "status")
    THEN ("status" :> input.status)
         @@ submittedAtStamp(existing, input, now)
         @@ reviewedAtStamp(existing, input, now)
    ELSE Empty

\* the update data without updated_at
updateDataWithoutUpdatedAt(existing, input, now) ==
    provided(input, "title")
    @@ provided(input, "description")
    @@ provided(input, "department_id")
    @@ provided(input, "category_id")
    @@ providedAmount(input)
    @@ provided(input, "justification")
    @@ provided(input, "priority")
    @@ provided(input, "fiscal_year")
    @@ provided(input, "expected_start_date")
    @@ provided(input, "expected_end_date")
    @@ statusTransition(existing, input, now)
    @@ provided(input, "review_notes")
    @@ provided(input, "reviewed_by")

updateData(existing, input, now) ==
    ("updated_at" :> now)
    @@ provided(input, "title")
    @@ provided(input, "description")
    @@ provided(input, "department_id")
    @@ provided(input, "category_id")
    @@ providedAmount(input)
    @@ provided(input, "justification")
    @@ provided(input, "priority")
    @@ provided(input, "fiscal_year")
    @@ provided(input, "expected_start_date")
    @@ provided(input, "expected_end_date")
    @@ statusTransition(existing, input, now)
    @@ provided(input, "review_notes")
    @@ provided(input, "reviewed_by")

\* db.update(budgetRequestsTable).set(data).where(eq(id)): the row after it
set(row, data) ==
    [f \in DOMAIN row |-> IF f \in DOMAIN data THEN data[f] ELSE row[f]]

updateBudgetRequest(input, now) ==
    IF input.id \notin DOMAIN budget_requests
    THEN [budget_requests |-> budget_requests,
          clock |-> clock,
          response |-> ReturnedNull]
    ELSE LET existing == budget_requests[input.id]
             updated == set(existing, updateData(existing, input, now))
         IN  [budget_requests |-> [budget_requests EXCEPT ![input.id] = updated],
              clock |-> now,
              response |-> Returned(toBudgetRequest(updated))]

\* appRouter.updateBudgetRequest: the input schema, then the handler
UpdateBudgetRequest(input, now) ==
    /\ calls < MaxCalls
    /\ calls' = calls + 1
    /\ call' = [op |-> "updateBudgetRequest", input |-> input]
    /\ LET out == IF updateBudgetRequestInputSchema(input)
                  THEN updateBudgetRequest(input, now)
                  ELSE [budget_requests |-> budget_requests,
                        clock |-> clock,
                        response |-> Thrown(ValidationError)]
       IN  /\ budget_requests' = out.budget_requests
           /\ clock' = out.clock
           /\ response' = out.response
    /\ UNCHANGED <<departments, budget_categories, budget_line_items,
                   request_seq, line_item_seq>>

(***************************************************************************)
(* submitBudgetRequest                                                     *)
(***************************************************************************)
NotDraft(status) ==
    CASE status = "processing" -> "Budget request cannot be submitted. Current status: processing"
      [] status = "review" -> "Budget request cannot be submitted. Current status: review"
      [] status = "approved" -> "Budget request cannot be submitted. Current status: approved"
      [] status = "rejected" -> "Budget request cannot be submitted. Current status: rejected"
      [] OTHER -> "Budget request cannot be submitted. Current status: draft"

IncompleteFields == "Budget request is incomplete. All required fields must be filled."

IncompleteSubmitter == "Budget request is incomplete. Submitter information is required."

\* the update without submitted_at
submitDataWithoutTimestamp(existing, now) ==
    ("status" :> "processing") @@ ("updated_at" :> now)

\* .set({ status: 'processing', submitted_at: new Date(), updated_at: new Date() })
submitData(existing, now) ==
    ("status" :> "processing") @@ ("submitted_at" :> Some(now)) @@ ("updated_at" :> now)

\* the validation without the status test
submitErrorIgnoringStatus(existingRequest) ==
    IF \/ existingRequest.title = ""
       \/ existingRequest.description = ""
       \/ existingRequest.justification = "" THEN IncompleteFields
    ELSE IF existingRequest.submitted_by = "" THEN IncompleteSubmitter
    ELSE ""

\* the validation with the submitter test before the text fields
submitErrorSubmitterFirst(existingRequest) ==
    IF existingRequest.status # "draft" THEN NotDraft(existingRequest.status)
    ELSE IF existingRequest.submitted_by = "" THEN IncompleteSubmitter
    ELSE IF \/ existingRequest.title = ""
            \/ existingRequest.description = ""
            \/ existingRequest.justification = "" THEN IncompleteFields
    ELSE ""

\* The error submitBudgetRequest throws for the row, or "" when it passes.  The
\* date columns are NOT NULL and a Date object is never falsy.
submitError(existingRequest) ==
    IF existingRequest.status # "draft" THEN NotDraft(existingRequest.status)
    ELSE IF \/ existingRequest.title = ""
            \/ existingRequest.description = ""
            \/ existingRequest.justification = "" THEN IncompleteFields
    ELSE IF existingRequest.submitted_by = "" THEN IncompleteSubmitter
    ELSE ""

submitBudgetRequest(input, now) ==
    IF input.id \notin DOMAIN budget_requests
    THEN [budget_requests |-> budget_requests,
          clock |-> clock,
          response |-> ReturnedNull]
    ELSE LET existingRequest == budget_requests[input.id]
             updatedRequest == set(existingRequest, submitData(existingRequest, now))
         IN  IF submitError(existingRequest) # ""
             THEN [budget_requests |-> budget_requests,
                   clock |-> clock,
                   response |-> Thrown(submitError(existingRequest))]
             ELSE [budget_requests |-> [budget_requests EXCEPT ![input.id] = updatedRequest],
                   clock |-> now,
                   response |-> Returned(toBudgetRequest(updatedRequest))]

\* appRouter.submitBudgetRequest: the input schema, then the handler
SubmitBudgetRequest(input, now) ==
    /\ calls < MaxCalls
    /\ calls' = calls + 1
    /\ call' = [op |-> "submitBudgetRequest", input |-> input]
    /\ LET out == IF getBudgetRequestByIdInputSchema(input)
                  THEN submitBudgetRequest(input, now)
                  ELSE [budget_requests |-> budget_requests,
                        clock |-> clock,
                        response |-> Thrown(ValidationError)]
       IN  /\ budget_requests' = out.budget_requests
           /\ clock' = out.clock
           /\ response' = out.response
    /\ UNCHANGED <<departments, budget_categories, budget_line_items,
                   request_seq, line_item_seq>>

(***************************************************************************)
(* getBudgetRequestById                                                    *)
(***************************************************************************)
\* the getBudgetRequestById handler raising for an id that is not stored
getBudgetRequestByIdThrowing(input) ==
    IF input.id \notin DOMAIN budget_requests
    THEN Thrown("Budget request not found")
    ELSE Returned(toBudgetRequest(budget_requests[input.id]))

getBudgetRequestById(input) ==
    IF input.id \notin DOMAIN budget_requests
    THEN ReturnedNull
    ELSE Returned(toBudgetRequest(budget_requests[input.id]))

\* appRouter.getBudgetRequestById: the input schema, then the handler
GetBudgetRequestById(input) ==
    /\ calls < MaxCalls
    /\ calls' = calls + 1
    /\ call' = [op |-> "getBudgetRequestById", input |-> input]
    /\ response' = IF getBudgetRequestByIdInputSchema(input)
                   THEN getBudgetRequestById(input)
                   ELSE Thrown(ValidationError)
    /\ UNCHANGED <<departments, budget_categories, budget_requests, budget_line_items,
                   request_seq, line_item_seq, clock>>

(***************************************************************************)
(* getBudgetRequests.  An input supplies any of department_id, status,     *)
(* fiscal_year, priority, limit and offset.                                *)
(***************************************************************************)
DefaultLimit == 20

MaxLimit == 100

Min(a, b) == IF a < b THEN a ELSE b

getBudgetRequestsInputSchema(input) ==
    /\ defined(input, "status") => input.status \in budgetRequestStatusSchema
    /\ defined(input, "priority") => input.priority \in budgetRequestPrioritySchema
    /\ defined(input, "limit") => (input.limit > 0 /\ input.limit <= MaxLimit)
    /\ defined(input, "offset") => input.offset >= 0

\* the parsed input: .default(20) and .default(0)
withDefaults(input) ==
    input @@ ("limit" :> DefaultLimit) @@ ("offset" :> 0)

\* and(...conditions) on a row of budget_requests
conditions(input, row) ==
    /\ defined(input, "department_id") => row.department_id = input.department_id
    /\ defined(input, "status") => row.status = input.status
    /\ defined(input, "fiscal_year") => row.fiscal_year = input.fiscal_year
    /\ defined(input, "priority") => row.priority = input.priority

\* the rows both inner joins keep
innerJoin(row) ==
    /\ row.department_id \in DOMAIN departments
    /\ row.category_id \in DOMAIN budget_categories

\* the ids the requests query selects, before ordering
requestsQueryIds(input) ==
    { id \in DOMAIN budget_requests :
        innerJoin(budget_requests[id]) /\ conditions(input, budget_requests[id]) }

\* the ids the count query counts
countQueryIds(input) ==
    { id \in DOMAIN budget_requests : conditions(input, budget_requests[id]) }

\* orderBy(desc(created_at)): every arrangement of the ids with created_at
\* descending; rows of equal created_at come in an order the store chooses
orderBy(ids) ==
    { order \in [1..Cardinality(ids) -> ids] :
        /\ \A i, j \in 1..Cardinality(ids) : i # j => order[i] # order[j]
        /\ \A i, j \in 1..Cardinality(ids) :
              i < j => budget_requests[order[i]].created_at
                          >= budget_requests[order[j]].created_at }

\* .limit(input.limit).offset(input.offset) of the ordered ids, then the map
\* to BudgetRequest
requestsResult(input, order) ==
    [n \in 1..(Min(input.offset + input.limit, Len(order)) - Min(input.offset, Len(order))) |->
        toBudgetRequest(budget_requests[order[input.offset + n]])]

getBudgetRequests(input, order) ==
    LET total == Cardinality(countQueryIds(input))
    IN  [kind |-> "page",
         message |-> "",
         rows |-> requestsResult(input, order),
         total |-> total,
         hasMore |-> input.offset + input.limit < total]

\* appRouter.getBudgetRequests: the input schema with its defaults, then the
\* handler
GetBudgetRequests(input, order) ==
    /\ calls < MaxCalls
    /\ order \in orderBy(requestsQueryIds(input))
    /\ calls' = calls + 1
    /\ call' = [op |-> "getBudgetRequests", input |-> input]
    /\ response' = IF getBudgetRequestsInputSchema(input)
                   THEN getBudgetRequests(withDefaults(input), order)
                   ELSE Thrown(ValidationError)
    /\ UNCHANGED <<departments, budget_categories, budget_requests, budget_line_items,
                   request_seq, line_item_seq, clock>>

(***************************************************************************)
(* Inputs of updateBudgetRequest and submitBudgetRequest.                  *)
(***************************************************************************)
\* id 0 fails the schema; request_seq + 1 is not stored
NoSuchIds == {0, request_seq + 1}

\* the fields an update supplies besides id; department 3 and category 3
\* are not stored
UpdatePatches ==
    { Empty }
    \cup { "status" :> s : s \in budgetRequestStatusSchema }
    \cup { ("status" :> "approved") @@ ("reviewed_by" :> Some("Manager"))
                                    @@ ("review_notes" :> Some("Notes")),
           ("reviewed_by" :> Null) @@ ("review_notes" :> Null),
           "title" :> "Updated",
           ("description" :> "Updated") @@ ("justification" :> "Updated")
               @@ ("priority" :> "high") @@ ("fiscal_year" :> 2025)
               @@ ("department_id" :> 2) @@ ("category_id" :> 2)
               @@ ("expected_end_date" :> 3),
           ("department_id" :> 3) @@ ("category_id" :> 3)
               @@ ("requested_amount" :> 2015) @@ ("expected_start_date" :> 3) }

UpdateInputs ==
    { ("id" :> id) @@ patch : id \in DOMAIN budget_requests, patch \in UpdatePatches }
    \cup { ("id" :> id) @@ ("title" :> "Updated") : id \in NoSuchIds }

SubmitInputs == { [id |-> id] : id \in DOMAIN budget_requests \cup NoSuchIds }

(***************************************************************************)
(* BudgetRequestForm as mounted, and no handler call in progress.          *)
(***************************************************************************)
\* the years the module may be loaded in: this year, and one whose fifth
\* option lies beyond the fiscal years the input schema takes
CurrentYears == {2026, 2047}

\* Array.from({ length: 5 }, (_, i) => currentYear + i)
fiscalYearOptions == currentYear..(currentYear + 4)

\* { description: '', quantity: 1, unit_price: 0, notes: null }
emptyLineItem == [description |-> "", quantity |-> 1, unit_price |-> 0, notes |-> Null]

\* useState<FormData>({...}); requested_amount is the total the effect sets
\* after the first render.  A select or a date that holds nothing is Null.
initialFormData ==
    [title |-> "",
     description |-> "",
     department_id |-> Null,
     category_id |-> Null,
     requested_amount |-> 0,
     justification |-> "",
     priority |-> Null,
     fiscal_year |-> currentYear + 1,
     expected_start_date |-> Null,
     expected_end_date |-> Null,
     submitted_by |-> "",
     line_items |-> <<emptyLineItem>>]

\* the services are called directly: the form stays as mounted, in 2026
InitClient ==
    /\ currentYear = 2026
    /\ formData = initialFormData
    /\ errors = {}
    /\ submitSuccess = FALSE
    /\ timers = 0
    /\ events = 0
    /\ pending = Empty

(***************************************************************************)
(* The state machine.                                                      *)
(***************************************************************************)
Init ==
    /\ departments = (1 :> [id |-> 1, name |-> "Wildlife Management Department"])
                     @@ (2 :> [id |-> 2, name |-> "Forest Research Institute"])
    /\ budget_categories = (1 :> [id |-> 1, name |-> "Equipment"])
                           @@ (2 :> [id |-> 2, name |-> "Conservation"])
    /\ budget_requests = Empty
    /\ budget_line_items = Empty
    /\ request_seq = 0
    /\ line_item_seq = 0
    /\ clock = 0
    /\ calls = 0
    /\ call = NoCall
    /\ response = NoResponse
    /\ InitClient

\* the times a call may read
Now == { t \in {clock, clock + 1} : t <= MaxClock }

Next ==
    \/ /\ \E input \in CreateInputs, lineItemsFail \in BOOLEAN, now \in Now :
             CreateBudgetRequest(input, lineItemsFail, now)
       /\ UNCHANGED client
    \/ /\ \E input \in UpdateInputs, now \in Now : UpdateBudgetRequest(input, now)
       /\ UNCHANGED client
    \/ /\ \E input \in SubmitInputs, now \in Now : SubmitBudgetRequest(input, now)
       /\ UNCHANGED client

Spec == Init /\ [][Next]_vars

(***************************************************************************)
(* The service with its two queries.  Two requests that differ in every    *)
(* filtered column are created; updates move one to processing or point it *)
(* at department 3, which is not stored.                                   *)
(***************************************************************************)
QueryCreateInputs ==
    { BaseCreateInput,
      [BaseCreateInput EXCEPT !.department_id = 2, !.fiscal_year = 2025,
                              !.priority = "high"] }

QueryUpdateInputs ==
    { ("id" :> id) @@ patch :
        id \in DOMAIN budget_requests,
        patch \in { "status" :> "processing", "department_id" :> 3 } }
    \cup { ("id" :> id) @@ ("title" :> "Updated") : id \in NoSuchIds }

GetBudgetRequestByIdInputs == SubmitInputs

\* the filters of a query
QueryFilters ==
    { Empty,
      "department_id" :> 1,
      "status" :> "draft",
      ("fiscal_year" :> 2024) @@ ("priority" :> "medium") }

\* limit and offset of a query; neither, one or both are supplied
QueryPages ==
    { Empty,
      "limit" :> 1,
      "offset" :> 1,
      ("limit" :> 1) @@ ("offset" :> 1),
      ("limit" :> 1) @@ ("offset" :> 2),
      ("limit" :> 2) @@ ("offset" :> 1) }

\* the last three inputs fail the schema
GetBudgetRequestsInputs ==
    { filter @@ page : filter \in QueryFilters, page \in QueryPages }
    \cup { "limit" :> 0, "limit" :> MaxLimit + 1, "offset" :> -1 }

NextQueries ==
    \/ /\ \E input \in QueryCreateInputs, lineItemsFail \in BOOLEAN, now \in Now :
             CreateBudgetRequest(input, lineItemsFail, now)
       /\ UNCHANGED client
    \/ /\ \E input \in QueryUpdateInputs, now \in Now : UpdateBudgetRequest(input, now)
       /\ UNCHANGED client
    \/ /\ \E input \in SubmitInputs, now \in Now : SubmitBudgetRequest(input, now)
       /\ UNCHANGED client
    \/ /\ \E input \in GetBudgetRequestByIdInputs : GetBudgetRequestById(input)
       /\ UNCHANGED client
    \/ /\ \E input \in GetBudgetRequestsInputs :
             \E order \in orderBy(requestsQueryIds(input)) : GetBudgetRequests(input, order)
       /\ UNCHANGED client

SpecQueries == Init /\ [][NextQueries]_vars

(***************************************************************************)
(* The service over a table that holds one request inserted directly, as   *)
(* the submit tests insert theirs: the text columns are NOT NULL but may   *)
(* hold the empty string, which no create or update input can store.       *)
(***************************************************************************)
\* db.insert(budgetRequestsTable).values({...}) with the columns' defaults
seededBudgetRequest(title, description, justification, submitted_by, status) ==
    [id |-> 1,
     title |-> title,
     description |-> description,
     department_id |-> 1,
     category_id |-> 1,
     requested_amount |-> 2500000,
     justification |-> justification,
     priority |-> "low",
     status |-> status,
     fiscal_year |-> 2024,
     expected_start_date |-> 1,
     expected_end_date |-> 2,
     submitted_by |-> submitted_by,
     submitted_at |-> Null,
     reviewed_by |-> Null,
     reviewed_at |-> Null,
     review_notes |-> Null,
     created_at |-> 0,
     updated_at |-> 0]

InitSeeded ==
    /\ departments = (1 :> [id |-> 1, name |-> "Test Department"])
    /\ budget_categories = (1 :> [id |-> 1, name |-> "Test Category"])
    /\ \E title \in {"", "Incomplete Request"},
          description \in {"", "A complete description"},
          justification \in {"", "Some justification"},
          submitted_by \in {"", "Test User"},
          status \in {"draft", "review"} :
          budget_requests =
              (1 :> seededBudgetRequest(title, description, justification, submitted_by, status))
    /\ budget_line_items = Empty
    /\ request_seq = 1
    /\ line_item_seq = 0
    /\ clock = 0
    /\ calls = 0
    /\ call = NoCall
    /\ response = NoResponse
    /\ InitClient

SeededUpdateInputs ==
    { ("id" :> 1) @@ patch :
        patch \in { "title" :> "Updated", "status" :> "draft", "status" :> "processing" } }

NextSeeded ==
    \/ /\ \E input \in SeededUpdateInputs, now \in Now : UpdateBudgetRequest(input, now)
       /\ UNCHANGED client
    \/ /\ \E input \in SubmitInputs, now \in Now : SubmitBudgetRequest(input, now)
       /\ UNCHANGED client

SpecSeeded == InitSeeded /\ [][NextSeeded]_vars

(***************************************************************************)
(* createBudgetRequest alone, with inputs that break each rule of its      *)
(* schema in turn.                                                         *)
(***************************************************************************)
Double(s) == s \o s

\* 256 and 2048 characters
Text256 == Double(Double(Double(Double(Double(Double(Double(Double("a"))))))))

Text2048 == Double(Double(Double(Text256)))

InvalidCreateInputs ==
    { [BaseCreateInput EXCEPT !.title = ""],
      [BaseCreateInput EXCEPT !.title = Text256],
      [BaseCreateInput EXCEPT !.description = ""],
      [BaseCreateInput EXCEPT !.description = Text2048],
      [BaseCreateInput EXCEPT !.justification = ""],
      [BaseCreateInput EXCEPT !.justification = Text2048],
      [BaseCreateInput EXCEPT !.requested_amount = 0, !.line_items = <<>>],
      [BaseCreateInput EXCEPT !.requested_amount = -2000,
                              !.line_items = <<Item(2, -1000)>>],
      [BaseCreateInput EXCEPT !.fiscal_year = 2019],
      [BaseCreateInput EXCEPT !.fiscal_year = 2051],
      [BaseCreateInput EXCEPT !.expected_end_date = 0],
      [BaseCreateInput EXCEPT !.submitted_by = ""],
      [BaseCreateInput EXCEPT !.line_items =
          <<[Item(2, 1000) EXCEPT !.description = ""]>>],
      [BaseCreateInput EXCEPT !.requested_amount = 2000,
                              !.line_items = <<Item(2, 1000), Item(0, 1000)>>],
      [BaseCreateInput EXCEPT !.requested_amount = 1000,
                              !.line_items = <<Item(2, 1000), Item(-1, 1000)>>],
      [BaseCreateInput EXCEPT !.requested_amount = 2000,
                              !.line_items = <<Item(2, 1000), Item(1, 0)>>] }

ValidationCreateInputs ==
    { BaseCreateInput,
      [BaseCreateInput EXCEPT !.title = "Second", !.priority = "critical"] }
    \cup InvalidCreateInputs

NextValidation ==
    /\ \E input \in ValidationCreateInputs, lineItemsFail \in BOOLEAN, now \in Now :
          CreateBudgetRequest(input, lineItemsFail, now)
    /\ UNCHANGED client

SpecValidation == Init /\ [][NextValidation]_vars

(***************************************************************************)
(* getDepartments and getBudgetCategories, over tables filled directly as  *)
(* their tests fill them: the service has no procedure that writes a       *)
(* department or a category.                                               *)
(***************************************************************************)
\* the names in use, in ascending order of the text column
nameOrder ==
    << "Ecosystem Services Department",
       "Forest Research Institute",
       "Wildlife Management Department" >>

nameRank(name) == CHOOSE i \in 1..Len(nameOrder) : nameOrder[i] = name

\* the rows in insertion order, whatever their names
orderByInsertion(table) ==
    { [n \in 1..Cardinality(DOMAIN table) |-> n] }

\* orderBy(asc(name)): every arrangement of the rows with name ascending;
\* rows of equal name come in an order the store chooses
orderByName(table) ==
    { order \in [1..Cardinality(DOMAIN table) -> DOMAIN table] :
        /\ \A i, j \in 1..Cardinality(DOMAIN table) : i # j => order[i] # order[j]
        /\ \A i, j \in 1..Cardinality(DOMAIN table) :
              i < j => nameRank(table[order[i]].name) <= nameRank(table[order[j]].name) }

getDepartments(order) ==
    [kind |-> "list",
     message |-> "",
     rows |-> [n \in 1..Len(order) |-> departments[order[n]]]]

\* appRouter.getDepartments
GetDepartments(order) ==
    /\ calls < MaxCalls
    /\ order \in orderByName(departments)
    /\ calls' = calls + 1
    /\ call' = [op |-> "getDepartments", input |-> Empty]
    /\ response' = getDepartments(order)
    /\ UNCHANGED <<departments, budget_categories, budget_requests, budget_line_items,
                   request_seq, line_item_seq, clock>>

\* the handler resolves to four rows written in its source and reads no table
getBudgetCategories ==
    [kind |-> "list",
     message |-> "",
     rows |-> << [id |-> 1, name |-> "Equipment and Infrastructure"],
                 [id |-> 2, name |-> "Personnel and Training"],
                 [id |-> 3, name |-> "Research and Development"],
                 [id |-> 4, name |-> "Operations and Maintenance"] >>]

\* appRouter.getBudgetCategories
GetBudgetCategories ==
    /\ calls < MaxCalls
    /\ calls' = calls + 1
    /\ call' = [op |-> "getBudgetCategories", input |-> Empty]
    /\ response' = getBudgetCategories
    /\ UNCHANGED <<departments, budget_categories, budget_requests, budget_line_items,
                   request_seq, line_item_seq, clock>>

\* db.insert(departmentsTable).values([...]): up to three rows, ids in
\* insertion order, any of the names in any order
InsertedDepartments ==
    UNION { { [id \in 1..n |-> [id |-> id, name |-> names[id]]] :
                names \in [1..n -> { nameOrder[i] : i \in 1..Len(nameOrder) }] } :
            n \in 0..Len(nameOrder) }

InsertedBudgetCategories ==
    { Empty,
      (1 :> [id |-> 1, name |-> "Equipment"]) @@ (2 :> [id |-> 2, name |-> "Conservation"]) }

InitReference ==
    /\ departments \in InsertedDepartments
    /\ budget_categories \in InsertedBudgetCategories
    /\ budget_requests = Empty
    /\ budget_line_items = Empty
    /\ request_seq = 0
    /\ line_item_seq = 0
    /\ clock = 0
    /\ calls = 0
    /\ call = NoCall
    /\ response = NoResponse
    /\ InitClient

NextReference ==
    \/ /\ \E order \in orderByName(departments) : GetDepartments(order)
       /\ UNCHANGED client
    \/ /\ GetBudgetCategories
       /\ UNCHANGED client

SpecReference == InitReference /\ [][NextReference]_vars

(***************************************************************************)
(* BudgetRequestForm.  A text input holds a string; a select or a date     *)
(* input holds Null until a choice is made and Some(v) after; a number     *)
(* input delivers the text typed, which is Null when it is not a number    *)
(* and otherwise Some(n), n the decimal typed in thousandths: Some(2500)   *)
(* is "2.5".                                                               *)
(* React runs the effect that follows a change of line_items before the    *)
(* next event is handled, so the effect is part of the handler's step.     *)
(***************************************************************************)
RECURSIVE trimStart(_)
trimStart(s) ==
    IF Len(s) > 0 /\ SubSeq(s, 1, 1) = " " THEN trimStart(SubSeq(s, 2, Len(s))) ELSE s

RECURSIVE trimEnd(_)
trimEnd(s) ==
    IF Len(s) > 0 /\ SubSeq(s, Len(s), Len(s)) = " "
    THEN trimEnd(SubSeq(s, 1, Len(s) - 1))
    ELSE s

\* String.prototype.trim, for the one kind of white space the inputs here hold
trim(s) == trimEnd(trimStart(s))

\* !value, for a string
emptyString(s) == Len(s) = 0

\* !value, for number | null
falsy(x) == x = Null \/ x = Some(0)

\* !value, for a priority and for the text of a date input, '' being Null
unset(x) == x = Null

\* parseInt(e.target.value) || 0
parseIntOrZero(text) ==
    IF text = Null THEN 0
    ELSE IF text[1] >= 0 THEN text[1] \div 1000 ELSE 0 - ((0 - text[1]) \div 1000)

\* parseFloat(e.target.value) || 0
parseFloatOrZero(text) == IF text = Null THEN 0 ELSE text[1]

RECURSIVE lineItemsReduce(_, _)
lineItemsReduce(lineItems, sum) ==
    IF lineItems = <<>> THEN sum
    ELSE lineItemsReduce(Tail(lineItems),
                         sum + Head(lineItems).quantity * Head(lineItems).unit_price)

calculateTotalAmount(lineItems) == lineItemsReduce(lineItems, 0)

\* a change of line_items that leaves requested_amount as it was
keepRequestedAmount(data) == data

\* useEffect(..., [formData.line_items]): requested_amount follows line_items
updateRequestedAmount(data) ==
    [data EXCEPT !.requested_amount = calculateTotalAmount(data.line_items)]

updateField(field, value) ==
    /\ formData' = [formData EXCEPT ![field] = value]
    /\ errors' = errors \ {field}

updateLineItem(index, field, value) ==
    formData' = updateRequestedAmount(
        [formData EXCEPT !.line_items =
            [i \in 1..Len(@) |-> IF i - 1 = index THEN [@[i] EXCEPT ![field] = value]
                                 ELSE @[i]]])

addLineItem ==
    formData' = updateRequestedAmount(
        [formData EXCEPT !.line_items = Append(@, emptyLineItem)])

\* prev.line_items.filter((_, i) => i !== index)
filterOut(lineItems, index) ==
    [i \in 1..(Len(lineItems) - 1) |->
        IF i - 1 < index THEN lineItems[i] ELSE lineItems[i + 1]]

removeLineItem(index) ==
    IF Len(formData.line_items) > 1
    THEN formData' = updateRequestedAmount(
             [formData EXCEPT !.line_items = filterOut(@, index)])
    ELSE formData' = formData

lineItemErrorKey(index, field) == "line_item_" \o ToString(index) \o "_" \o field

lineItemErrors(data) ==
    UNION { {lineItemErrorKey(i - 1, "description") :
                 x \in {0} \cap (IF emptyString(trim(data.line_items[i].description))
                                 THEN {0} ELSE {})}
            \cup {lineItemErrorKey(i - 1, "quantity") :
                 x \in {0} \cap (IF data.line_items[i].quantity <= 0 THEN {0} ELSE {})}
            \cup {lineItemErrorKey(i - 1, "unit_price") :
                 x \in {0} \cap (IF data.line_items[i].unit_price <= 0 THEN {0} ELSE {})} :
            i \in 1..Len(data.line_items) }

\* validateForm: the keys of newErrors
newErrors(data) ==
    { key \in {"title"} : emptyString(trim(data.title)) }
    \cup { key \in {"description"} : emptyString(trim(data.description)) }
    \cup { key \in {"department_id"} : falsy(data.department_id) }
    \cup { key \in {"category_id"} : falsy(data.category_id) }
    \cup { key \in {"justification"} : emptyString(trim(data.justification)) }
    \cup { key \in {"priority"} : unset(data.priority) }
    \cup { key \in {"expected_start_date"} : unset(data.expected_start_date) }
    \cup { key \in {"expected_end_date"} : unset(data.expected_end_date) }
    \cup { key \in {"submitted_by"} : emptyString(trim(data.submitted_by)) }
    \cup { key \in {"expected_end_date"} :
             /\ ~unset(data.expected_start_date)
             /\ ~unset(data.expected_end_date)
             /\ data.expected_end_date[1] < data.expected_start_date[1] }
    \cup lineItemErrors(data)

\* validateForm's result
validateForm(data) == newErrors(data) = {}

\* item.notes || null
notesOrNull(notes) == IF notes = Some("") THEN Null ELSE notes

\* handleSubmit: the CreateBudgetRequestInput built from the form
formSubmitData(data) ==
    [title |-> data.title,
     description |-> data.description,
     department_id |-> data.department_id[1],
     category_id |-> data.category_id[1],
     requested_amount |-> data.requested_amount,
     justification |-> data.justification,
     priority |-> data.priority[1],
     fiscal_year |-> data.fiscal_year,
     expected_start_date |-> data.expected_start_date[1],
     expected_end_date |-> data.expected_end_date[1],
     submitted_by |-> data.submitted_by,
     line_items |-> [i \in 1..Len(data.line_items) |->
                       [description |-> data.line_items[i].description,
                        quantity |-> data.line_items[i].quantity,
                        unit_price |-> data.line_items[i].unit_price,
                        notes |-> notesOrNull(data.line_items[i].notes)]]]

server == <<departments, budget_categories, budget_requests, budget_line_items,
            request_seq, line_item_seq, clock, calls, call, response>>

\* an input's onChange
UpdateField(field, value) ==
    /\ events < MaxEvents
    /\ events' = events + 1
    /\ updateField(field, value)
    /\ UNCHANGED <<server, submitSuccess, timers, currentYear, pending>>

\* a line item input's onChange
UpdateLineItem(index, field, value) ==
    /\ events < MaxEvents
    /\ events' = events + 1
    /\ updateLineItem(index, field, value)
    /\ UNCHANGED <<server, errors, submitSuccess, timers, currentYear, pending>>

\* the Add Item button
AddLineItem ==
    /\ events < MaxEvents
    /\ events' = events + 1
    /\ addLineItem
    /\ UNCHANGED <<server, errors, submitSuccess, timers, currentYear, pending>>

\* a line item's remove button
RemoveLineItem(index) ==
    /\ events < MaxEvents
    /\ events' = events + 1
    /\ removeLineItem(index)
    /\ UNCHANGED <<server, errors, submitSuccess, timers, currentYear, pending>>

\* the form's onSubmit, up to the answer of the mutation
HandleSubmit(lineItemsFail, now) ==
    /\ events < MaxEvents
    /\ events' = events + 1
    /\ IF ~validateForm(formData)
       THEN /\ errors' = newErrors(formData)
            /\ UNCHANGED <<server, formData, submitSuccess, timers, currentYear, pending>>
       ELSE /\ CreateBudgetRequest(formSubmitData(formData), lineItemsFail, now)
            /\ IF response'.kind = "ok"
               THEN /\ errors' = {}
                    /\ submitSuccess' = TRUE
                    /\ timers' = timers + 1
               ELSE /\ errors' = {"general"}
                    /\ UNCHANGED <<submitSuccess, timers>>
            /\ UNCHANGED <<formData, currentYear, pending>>

\* the callback of setTimeout(..., 3000)
ResetForm ==
    /\ events < MaxEvents
    /\ events' = events + 1
    /\ timers > 0
    /\ timers' = timers - 1
    /\ formData' = updateRequestedAmount(
          [initialFormData EXCEPT !.requested_amount = 0])
    /\ submitSuccess' = FALSE
    /\ UNCHANGED <<server, errors, currentYear, pending>>

\* the form after everything but the end date was entered through updateField
\* and updateLineItem
filledFormData ==
    updateRequestedAmount(
        [initialFormData EXCEPT
            !.title = "Title",
            !.description = "Description",
            !.department_id = Some(1),
            !.category_id = Some(1),
            !.justification = "Justification",
            !.priority = Some("medium"),
            !.expected_start_date = Some(2),
            !.submitted_by = "Alice",
            !.line_items = << [description |-> "Item", quantity |-> 1,
                               unit_price |-> 1000, notes |-> Null] >>])

InitForm ==
    /\ departments = (1 :> [id |-> 1, name |-> "Wildlife Management Department"])
                     @@ (2 :> [id |-> 2, name |-> "Forest Research Institute"])
    /\ budget_categories = (1 :> [id |-> 1, name |-> "Equipment"])
                           @@ (2 :> [id |-> 2, name |-> "Conservation"])
    /\ budget_requests = Empty
    /\ budget_line_items = Empty
    /\ request_seq = 0
    /\ line_item_seq = 0
    /\ clock = 0
    /\ calls = 0
    /\ call = NoCall
    /\ response = NoResponse
    /\ currentYear \in CurrentYears
    /\ formData = filledFormData
    /\ errors = {}
    /\ submitSuccess = FALSE
    /\ timers = 0
    /\ events = 0
    /\ pending = Empty

\* a blank title, an end date chosen before the start date and one on it, a
\* category that getBudgetCategories lists, the last fiscal year offered
FieldEdits ==
    { <<"title", " ">>,
      <<"expected_end_date", Some(1)>>, <<"expected_end_date", Some(2)>>,
      <<"category_id", Some(getBudgetCategories.rows[4].id)>> }
    \cup { <<"fiscal_year", year>> : year \in {currentYear + 4} \cap fiscalYearOptions }

\* "" and "2.5" typed as a quantity, "1000" as a unit price
LineItemEdits ==
    { <<"description", "Item">>,
      <<"quantity", parseIntOrZero(Null)>>,
      <<"quantity", parseIntOrZero(Some(2500))>>,
      <<"unit_price", parseFloatOrZero(Some(1000))>> }

NextForm ==
    \/ \E edit \in FieldEdits : UpdateField(edit[1], edit[2])
    \/ \E index \in 0..(Len(formData.line_items) - 1), edit \in LineItemEdits :
          UpdateLineItem(index, edit[1], edit[2])
    \/ AddLineItem
    \/ \E index \in 0..(Len(formData.line_items) - 1) : RemoveLineItem(index)
    \/ \E lineItemsFail \in BOOLEAN, now \in Now : HandleSubmit(lineItemsFail, now)
    \/ ResetForm

SpecForm == InitForm /\ [][NextForm]_vars

(***************************************************************************)
(* updateBudgetRequest and submitBudgetRequest as two database statements. *)
(* Each handler awaits its SELECT, then builds the data of its UPDATE from *)
(* the row it read and from new Date(), then awaits the UPDATE; a second   *)
(* caller's statements may fall between the two.  pending[caller] is the   *)
(* caller's call: "selected" between the statements, "returned" after.     *)
(***************************************************************************)
Callers == {1, 2}

\* a handler between its SELECT and its UPDATE, holding the data to set
selected(op, input, data) ==
    [op |-> op, input |-> input, pc |-> "selected", data |-> data, response |-> NoResponse]

\* a handler that has returned or thrown
returned(op, input, result) ==
    [op |-> op, input |-> input, pc |-> "returned", data |-> Empty, response |-> result]

idle(caller) ==
    IF caller \in DOMAIN pending THEN pending[caller].pc = "returned" ELSE TRUE

inFlight(caller) == caller \in DOMAIN pending /\ pending[caller].pc = "selected"

\* caller's record replaced in pending
pendingWith(caller, record) ==
    [c \in DOMAIN pending \cup {caller} |-> IF c = caller THEN record ELSE pending[c]]

\* an UPDATE that writes back every column of the row read
setWholeRow(existing, data) == set(existing, data)

\* .set(updateData): the columns the UPDATE statement assigns
setClause(existing, data) == data

\* updateBudgetRequest up to its UPDATE statement: the existence check and
\* the update data
updateBudgetRequestSelect(input, now) ==
    IF ~updateBudgetRequestInputSchema(input)
    THEN returned("updateBudgetRequest", input, Thrown(ValidationError))
    ELSE IF input.id \notin DOMAIN budget_requests
    THEN returned("updateBudgetRequest", input, ReturnedNull)
    ELSE LET existing == budget_requests[input.id]
         IN  selected("updateBudgetRequest", input,
                      setClause(existing, updateData(existing, input, now)))

\* submitBudgetRequest up to its UPDATE statement: the checks of the row read
submitBudgetRequestSelect(input, now) ==
    IF ~getBudgetRequestByIdInputSchema(input)
    THEN returned("submitBudgetRequest", input, Thrown(ValidationError))
    ELSE IF input.id \notin DOMAIN budget_requests
    THEN returned("submitBudgetRequest", input, ReturnedNull)
    ELSE LET existingRequest == budget_requests[input.id]
         IN  IF submitError(existingRequest) # ""
             THEN returned("submitBudgetRequest", input, Thrown(submitError(existingRequest)))
             ELSE selected("submitBudgetRequest", input, submitData(existingRequest, now))

\* a caller's call begins and runs to its UPDATE statement, or to its end
\* when it returns null or throws before
Select(caller, record, now) ==
    /\ calls < MaxCalls
    /\ idle(caller)
    /\ calls' = calls + 1
    /\ pending' = pendingWith(caller, record)
    /\ IF record.pc = "selected"
       THEN /\ clock' = now
            /\ UNCHANGED <<call, response>>
       ELSE /\ call' = [op |-> record.op, input |-> record.input]
            /\ response' = record.response
            /\ UNCHANGED clock
    /\ UNCHANGED <<departments, budget_categories, budget_requests, budget_line_items,
                   request_seq, line_item_seq,
                   formData, errors, submitSuccess, timers, events, currentYear>>

UpdateSelect(caller, input, now) ==
    Select(caller, updateBudgetRequestSelect(input, now), now)

SubmitSelect(caller, input, now) ==
    Select(caller, submitBudgetRequestSelect(input, now), now)

\* db.update(budgetRequestsTable).set(data).where(eq(id)).returning(): the
\* statement acts on the row as stored now, and the handler returns the row
UpdateStatement(caller) ==
    /\ inFlight(caller)
    /\ LET id == pending[caller].input.id
           updated == set(budget_requests[id], pending[caller].data)
           result == Returned(toBudgetRequest(updated))
       IN  /\ budget_requests' = [budget_requests EXCEPT ![id] = updated]
           /\ call' = [op |-> pending[caller].op, input |-> pending[caller].input]
           /\ response' = result
           /\ pending' = pendingWith(caller,
                             returned(pending[caller].op, pending[caller].input, result))
    /\ UNCHANGED <<departments, budget_categories, budget_line_items,
                   request_seq, line_item_seq, clock, calls,
                   formData, errors, submitSuccess, timers, events, currentYear>>

\* updates of request 1: two that supply one text field each, two reviews
InterleavedUpdateInputs ==
    { ("id" :> 1) @@ ("title" :> "New title"),
      ("id" :> 1) @@ ("description" :> "New description"),
      ("id" :> 1) @@ ("status" :> "approved") @@ ("reviewed_by" :> Some("Bob")),
      ("id" :> 1) @@ ("status" :> "rejected") }

InterleavedSubmitInputs == { [id |-> 1] }

NextInterleaved ==
    \/ /\ \E lineItemsFail \in BOOLEAN, now \in Now :
             CreateBudgetRequest(BaseCreateInput, lineItemsFail, now)
       /\ UNCHANGED client
    \/ \E caller \in Callers, input \in InterleavedUpdateInputs, now \in Now :
          UpdateSelect(caller, input, now)
    \/ \E caller \in Callers, input \in InterleavedSubmitInputs, now \in Now :
          SubmitSelect(caller, input, now)
    \/ \E caller \in Callers : UpdateStatement(caller)

SpecInterleaved == Init /\ [][NextInterleaved]_vars

(***************************************************************************)
(* The service called with texts that are empty: creates without a title   *)
(* or a submitter, updates that would empty a text column.                 *)
(***************************************************************************)
TextCreateInputs ==
    { BaseCreateInput,
      [BaseCreateInput EXCEPT !.title = ""],
      [BaseCreateInput EXCEPT !.justification = ""],
      [BaseCreateInput EXCEPT !.submitted_by = ""] }

TextPatches ==
    { "title" :> "",
      "description" :> "",
      "justification" :> "",
      ("title" :> "Updated") @@ ("description" :> ""),
      "title" :> "Updated",
      "title" :> " ",
      "status" :> "draft",
      "status" :> "review" }

TextUpdateInputs ==
    { ("id" :> id) @@ patch : id \in DOMAIN budget_requests, patch \in TextPatches }

NextTexts ==
    \/ /\ \E input \in TextCreateInputs, lineItemsFail \in BOOLEAN, now \in Now :
             CreateBudgetRequest(input, lineItemsFail, now)
       /\ UNCHANGED client
    \/ /\ \E input \in TextUpdateInputs, now \in Now : UpdateBudgetRequest(input, now)
       /\ UNCHANGED client
    \/ /\ \E input \in SubmitInputs, now \in Now : SubmitBudgetRequest(input, now)
       /\ UNCHANGED client

SpecTexts == Init /\ [][NextTexts]_vars

(***************************************************************************)
(* Properties.  In an action property the unprimed tables are the store    *)
(* before the call and call', response' and the primed tables are the call *)
(* and the store after it.  Amounts are in thousandths: 10 is 0.01.        *)
(***************************************************************************)
RequestIds == DOMAIN budget_requests

LineItemIds == DOMAIN budget_line_items

\* the sum of quantity * unit_price over a sequence of line items
LineItemsTotal(items) ==
    LET total[n \in 0..Len(items)] ==
            IF n = 0 THEN 0
            ELSE total[n - 1] + items[n].quantity * items[n].unit_price
    IN  total[Len(items)]

\* draft < processing < review < {approved, rejected}
StatusRank(status) ==
    CASE status = "draft" -> 0
      [] status = "processing" -> 1
      [] status = "review" -> 2
      [] OTHER -> 3

\* C1: once a request's submitted_at is non-null, no later update or submit
\* changes its value.
SubmittedAtNeverChanges ==
    [][\A id \in RequestIds :
          budget_requests[id].submitted_at # Null
          => budget_requests'[id].submitted_at = budget_requests[id].submitted_at]_vars

\* C2: once a request's reviewed_at is non-null, no later update or submit
\* changes its value.
ReviewedAtNeverChanges ==
    [][\A id \in RequestIds :
          budget_requests[id].reviewed_at # Null
          => budget_requests'[id].reviewed_at = budget_requests[id].reviewed_at]_vars

\* C2 witness: an update to approved or rejected made at time 1 on a request
\* reviewed at time 0.
ReviewedAgainLater ==
    /\ call.op = "updateBudgetRequest"
    /\ response.kind = "ok"
    /\ "status" \in DOMAIN call.input
    /\ call.input.status \in {"approved", "rejected"}
    /\ budget_requests[call.input.id].reviewed_at = Some(0)
    /\ budget_requests[call.input.id].updated_at = 1

\* C3: submit on a stored request that is not a draft throws the error naming
\* the request's status and leaves the tables as they were.
SubmitNonDraftFails ==
    [][(/\ call'.op = "submitBudgetRequest"
        /\ call'.input.id \in RequestIds
        /\ budget_requests[call'.input.id].status # "draft")
       => (/\ response'.kind = "error"
           /\ response'.message = NotDraft(budget_requests[call'.input.id].status)
           /\ UNCHANGED tables)]_vars

\* C3 witness: a submit on an approved request has been refused.
SubmitOnApprovedRefused ==
    /\ call.op = "submitBudgetRequest"
    /\ call.input.id \in RequestIds
    /\ budget_requests[call.input.id].status = "approved"
    /\ response = Thrown(NotDraft("approved"))

\* C4: submit on a stored draft whose title, description, justification and
\* submitted_by are non-empty returns the request with status processing and
\* a submitted_at; stored and returned, only status, submitted_at and
\* updated_at differ from the request before the call.
SubmitDraftSucceeds ==
    [][(/\ call'.op = "submitBudgetRequest"
        /\ call'.input.id \in RequestIds
        /\ budget_requests[call'.input.id].status = "draft"
        /\ budget_requests[call'.input.id].title # ""
        /\ budget_requests[call'.input.id].description # ""
        /\ budget_requests[call'.input.id].justification # ""
        /\ budget_requests[call'.input.id].submitted_by # "")
       => LET before == budget_requests[call'.input.id]
              stored == budget_requests'[call'.input.id]
          IN  /\ response'.kind = "ok"
              /\ Len(response'.rows) = 1
              /\ stored.status = "processing"
              /\ stored.submitted_at # Null
              /\ response'.rows[1].status = "processing"
              /\ response'.rows[1].submitted_at # Null
              /\ \A f \in DOMAIN before \ {"status", "submitted_at", "updated_at"} :
                    /\ stored[f] = before[f]
                    /\ f # "requested_amount" => response'.rows[1][f] = before[f]
              /\ response'.rows[1].requested_amount = before.requested_amount * 10]_vars

\* C4 witness: a draft has been submitted.
DraftSubmitted ==
    /\ call.op = "submitBudgetRequest"
    /\ response.kind = "ok"
    /\ budget_requests[call.input.id].status = "processing"

\* C5: no call moves a request's status backward along
\* draft < processing < review < {approved, rejected}.
StatusNeverMovesBackward ==
    [][\A id \in RequestIds :
          StatusRank(budget_requests'[id].status) >= StatusRank(budget_requests[id].status)]_vars

\* C6: createBudgetRequest returns a request only when requested_amount is
\* within 0.01 of the line items' total; when it is further off, the call
\* throws the amount mismatch error and both tables stay as they were.
CreateOnlyWhenReconciled ==
    [][(/\ call'.op = "createBudgetRequest"
        /\ createBudgetRequestInputSchema(call'.input))
       => LET difference == Abs(call'.input.requested_amount
                                - LineItemsTotal(call'.input.line_items))
          IN  /\ response'.kind = "ok" => difference <= 10
              /\ difference > 10 => (response' = Thrown(AmountMismatch) /\ UNCHANGED tables)]_vars

\* C6 witness: a create whose requested_amount is 0.015 under its line items'
\* total has been refused.
CreateRefusedForMismatch ==
    /\ call.op = "createBudgetRequest"
    /\ createBudgetRequestInputSchema(call.input)
    /\ LineItemsTotal(call.input.line_items) - call.input.requested_amount > 10
    /\ response = Thrown(AmountMismatch)

CreateAddsRequestAndLineItems ==
    [][(call'.op = "createBudgetRequest" /\ response'.kind = "ok")
       => LET items == call'.input.line_items
              newRequests == DOMAIN budget_requests' \ RequestIds
              newLineItems == DOMAIN budget_line_items' \ LineItemIds
          IN  /\ Cardinality(newRequests) = 1
              /\ \A id \in RequestIds : budget_requests'[id] = budget_requests[id]
              /\ \A id \in newRequests :
                    /\ budget_requests'[id].status = "draft"
                    /\ budget_requests'[id].submitted_at = Null
                    /\ budget_requests'[id].reviewed_by = Null
                    /\ budget_requests'[id].reviewed_at = Null
                    /\ budget_requests'[id].review_notes = Null
              /\ Cardinality(newLineItems) = Len(items)
              /\ \A id \in LineItemIds : budget_line_items'[id] = budget_line_items[id]
              /\ \A n \in 1..Len(items) :
                    /\ line_item_seq + n \in newLineItems
                    /\ budget_line_items'[line_item_seq + n].budget_request_id \in newRequests
                    /\ budget_line_items'[line_item_seq + n].quantity = items[n].quantity
                    /\ budget_line_items'[line_item_seq + n].total_amount * 10
                          = items[n].quantity * items[n].unit_price]_vars

\* C9: every stored request has a stored line item whose budget_request_id is
\* its id.
EveryRequestHasLineItems ==
    \A id \in RequestIds :
        \E item \in LineItemIds : budget_line_items[item].budget_request_id = id

\* C9 witness: a create was rolled back after its request insert (its id is
\* drawn and no row holds it) while another request is stored.
CreateRolledBack ==
    /\ call.op = "createBudgetRequest"
    /\ response = Thrown(StoreFailure)
    /\ request_seq \notin RequestIds
    /\ RequestIds # {}

\* the fields of the addressed request an update may change
Updatable(input) ==
    (DOMAIN input \ {"id"}) \cup {"updated_at"}
    \cup (IF "status" \in DOMAIN input THEN {"submitted_at", "reviewed_at"} ELSE {})

\* C10: an update changes, of the request it addresses, only the fields its
\* input supplies, updated_at and, when status is supplied, submitted_at and
\* reviewed_at; every other request and every line item stay as they were.
UpdateChangesOnlySuppliedFields ==
    [][call'.op = "updateBudgetRequest"
       => /\ DOMAIN budget_requests' = RequestIds
          /\ \A id \in RequestIds :
                \A f \in DOMAIN budget_requests[id] :
                    (id # call'.input.id \/ f \notin Updatable(call'.input))
                    => budget_requests'[id][f] = budget_requests[id][f]
          /\ budget_line_items' = budget_line_items]_vars

\* C10 witness: an update supplying only the title has been applied to a
\* reviewed request while a second request is stored.
TitleOnlyUpdateOfReviewed ==
    /\ call.op = "updateBudgetRequest"
    /\ response.kind = "ok"
    /\ DOMAIN call.input = {"id", "title"}
    /\ budget_requests[call.input.id].title = call.input.title
    /\ budget_requests[call.input.id].reviewed_by # Null
    /\ Cardinality(RequestIds) = 2

\* the whole store: the four tables and the two id sequences
store == <<departments, budget_categories, budget_requests, budget_line_items,
           request_seq, line_item_seq>>

\* C11: getBudgetRequestById, updateBudgetRequest and submitBudgetRequest called
\* with a schema-valid input whose id is not stored return null, raise nothing
\* and leave the whole store as it was.
AbsentIdReturnsNull ==
    [][(/\ call'.op \in {"getBudgetRequestById", "updateBudgetRequest", "submitBudgetRequest"}
        /\ call'.op = "updateBudgetRequest" => updateBudgetRequestInputSchema(call'.input)
        /\ call'.input.id > 0
        /\ call'.input.id \notin RequestIds)
       => (response' = ReturnedNull /\ UNCHANGED store)]_vars

\* C11 witness: getBudgetRequestById on an id that is not stored has returned
\* null while another request is stored.
AbsentIdLookedUp ==
    /\ call.op = "getBudgetRequestById"
    /\ call.input.id > 0
    /\ call.input.id \notin RequestIds
    /\ RequestIds # {}
    /\ response = ReturnedNull

\* the stored requests that satisfy every filter the input supplies
Matching(input) ==
    { id \in RequestIds :
        /\ "department_id" \in DOMAIN input
              => budget_requests[id].department_id = input.department_id
        /\ "status" \in DOMAIN input => budget_requests[id].status = input.status
        /\ "fiscal_year" \in DOMAIN input
              => budget_requests[id].fiscal_year = input.fiscal_year
        /\ "priority" \in DOMAIN input => budget_requests[id].priority = input.priority }

\* the lists of the given requests, each once, with created_at descending
SortedByCreatedAt(ids) ==
    { list \in [1..Cardinality(ids) -> ids] :
        /\ \A id \in ids : \E i \in 1..Cardinality(ids) : list[i] = id
        /\ \A i \in 1..Cardinality(ids) : \A j \in 1..Cardinality(ids) :
              i <= j => budget_requests[list[i]].created_at
                           >= budget_requests[list[j]].created_at }

\* limit and offset of a query input, with the schema's defaults
LimitOf(input) == IF "limit" \in DOMAIN input THEN input.limit ELSE 20

OffsetOf(input) == IF "offset" \in DOMAIN input THEN input.offset ELSE 0

\* the number of rows at positions [offset, offset + limit) of a list of n
PageSize(input, n) ==
    IF n <= OffsetOf(input) THEN 0
    ELSE IF n - OffsetOf(input) < LimitOf(input) THEN n - OffsetOf(input)
    ELSE LimitOf(input)

\* C12: getBudgetRequests returns the requests at positions [offset, offset +
\* limit) of a list of all stored requests satisfying every supplied filter,
\* sorted by created_at descending, so the page holds
\* min(limit, max(0, total - offset)) rows.
PageIsSliceOfMatching ==
    [][(call'.op = "getBudgetRequests" /\ response'.kind = "page")
       => LET input == call'.input
              rows == response'.rows
          IN  /\ Len(rows) = PageSize(input, Cardinality(Matching(input)))
              /\ \E list \in SortedByCreatedAt(Matching(input)) :
                    \A n \in 1..Len(rows) :
                        /\ rows[n].id = list[OffsetOf(input) + n]
                        /\ rows[n] = [budget_requests[rows[n].id] EXCEPT
                                         !.requested_amount = @ * 10]]_vars

\* C13: getBudgetRequests returns total equal to the number of stored requests
\* satisfying the filters, whatever limit and offset are, and hasMore equal to
\* offset + limit < total, which is true exactly when the call with offset
\* raised by limit returns at least one row.
TotalAndHasMore ==
    [][(call'.op = "getBudgetRequests" /\ response'.kind = "page")
       => LET input == withDefaults(call'.input)
              next == [input EXCEPT !.offset = input.offset + input.limit]
          IN  /\ response'.total = Cardinality(Matching(input))
              /\ response'.hasMore = (OffsetOf(input) + LimitOf(input) < response'.total)
              /\ \A order \in orderBy(requestsQueryIds(next)) :
                    response'.hasMore = (Len(getBudgetRequests(next, order).rows) >= 1)]_vars

\* C13 as the code has it: total is the number of stored requests satisfying
\* the filters, whatever limit and offset are, and hasMore is
\* offset + limit < total.
TotalAndHasMoreOfCount ==
    [][(call'.op = "getBudgetRequests" /\ response'.kind = "page")
       => /\ response'.total = Cardinality(Matching(call'.input))
          /\ response'.hasMore
                = (OffsetOf(call'.input) + LimitOf(call'.input) < response'.total)]_vars

\* C14: every stored request's department_id is the id of a stored department
\* and its category_id is the id of a stored budget category.
ReferencesAreStored ==
    \A id \in RequestIds :
        /\ budget_requests[id].department_id \in DOMAIN departments
        /\ budget_requests[id].category_id \in DOMAIN budget_categories

\* the sum of total_amount over the stored line items of a request, in
\* hundredths
RECURSIVE SumOfTotals(_)
SumOfTotals(items) ==
    IF items = {} THEN 0
    ELSE LET item == CHOOSE i \in items : TRUE
         IN  budget_line_items[item].total_amount + SumOfTotals(items \ {item})

StoredLineItemsTotal(id) ==
    SumOfTotals({ item \in LineItemIds : budget_line_items[item].budget_request_id = id })

\* C15: every stored request's requested_amount is within 0.01 of the sum of
\* its line items' total_amount.
StoredAmountReconciled ==
    \A id \in RequestIds :
        /\ budget_requests[id].requested_amount - StoredLineItemsTotal(id) <= 1
        /\ StoredLineItemsTotal(id) - budget_requests[id].requested_amount <= 1

\* C16: every stored request has expected_end_date >= expected_start_date.
EndNotBeforeStart ==
    \A id \in RequestIds :
        budget_requests[id].expected_end_date >= budget_requests[id].expected_start_date

\* C17: every stored request whose status is approved or rejected has a
\* non-null reviewed_by.
ReviewedHasReviewer ==
    \A id \in RequestIds :
        budget_requests[id].status \in {"approved", "rejected"}
        => budget_requests[id].reviewed_by # Null

\* C18: a successful updateBudgetRequest or submitBudgetRequest sets the
\* addressed request's updated_at to the time of the call, also when the
\* input supplies only the id or re-sets the status it has; a call that fails
\* or returns null leaves every updated_at as it was; no call lowers an
\* updated_at.
UpdatedAtRefreshed ==
    [][/\ (/\ call'.op \in {"updateBudgetRequest", "submitBudgetRequest"}
           /\ response'.kind = "ok")
          => (/\ budget_requests'[call'.input.id].updated_at = clock'
              /\ clock' >= clock
              /\ response'.rows[1].updated_at = clock')
       /\ response'.kind # "ok"
          => \A id \in RequestIds :
                budget_requests'[id].updated_at = budget_requests[id].updated_at
       /\ \A id \in RequestIds :
             budget_requests'[id].updated_at >= budget_requests[id].updated_at]_vars

\* C18 witness: an update supplying only the id has been applied at time 1 to
\* a request created at time 0.
IdOnlyUpdateLater ==
    /\ call.op = "updateBudgetRequest"
    /\ DOMAIN call.input = {"id"}
    /\ response.kind = "ok"
    /\ budget_requests[call.input.id].created_at = 0
    /\ budget_requests[call.input.id].updated_at = 1

\* C19: submit on a stored draft with an empty title, description or
\* justification throws the "incomplete, all required fields" error; with those
\* three non-empty and an empty submitted_by it throws the "incomplete,
\* submitter information" error; either way both tables stay as they were.
SubmitIncompleteDraftFails ==
    [][(/\ call'.op = "submitBudgetRequest"
        /\ call'.input.id \in RequestIds
        /\ budget_requests[call'.input.id].status = "draft")
       => LET before == budget_requests[call'.input.id]
              textMissing == \/ before.title = ""
                             \/ before.description = ""
                             \/ before.justification = ""
          IN  /\ textMissing
                 => /\ response' = Thrown("Budget request is incomplete. All required fields must be filled.")
                    /\ UNCHANGED tables
              /\ (~textMissing /\ before.submitted_by = "")
                 => /\ response' = Thrown("Budget request is incomplete. Submitter information is required.")
                    /\ UNCHANGED tables]_vars

\* C19 witness: a submit on a draft with an empty title and an empty
\* submitted_by has been refused for its required fields.
SubmitWithoutTitleAndSubmitterRefused ==
    /\ call.op = "submitBudgetRequest"
    /\ call.input.id \in RequestIds
    /\ budget_requests[call.input.id].status = "draft"
    /\ budget_requests[call.input.id].title = ""
    /\ budget_requests[call.input.id].submitted_by = ""
    /\ budget_requests[call.input.id].submitted_at = Null
    /\ response = Thrown(IncompleteFields)

\* a line item that breaks a rule: empty description, quantity or unit_price
\* not positive
ViolatesLineItemRule(item) ==
    \/ item.description = ""
    \/ item.quantity <= 0
    \/ item.unit_price <= 0

\* a create input that breaks a create-mode rule
ViolatesCreateRule(input) ==
    \/ input.title = "" \/ Len(input.title) > 200
    \/ input.description = "" \/ Len(input.description) > 2000
    \/ input.justification = "" \/ Len(input.justification) > 2000
    \/ input.requested_amount <= 0
    \/ input.fiscal_year < 2020 \/ input.fiscal_year > 2050
    \/ input.expected_end_date < input.expected_start_date
    \/ input.submitted_by = ""
    \/ input.line_items = <<>>
    \/ \E i \in 1..Len(input.line_items) : ViolatesLineItemRule(input.line_items[i])

ListsExactly(rows, table) ==
    /\ Len(rows) = Cardinality(DOMAIN table)
    /\ \A id \in DOMAIN table : \E n \in 1..Len(rows) : rows[n] = table[id]

\* C21: getBudgetCategories returns exactly the stored budget categories, one
\* entry per stored row and nothing else, an empty list when none are stored.
CategoriesListed ==
    [][call'.op = "getBudgetCategories"
       => (/\ response'.kind = "list"
           /\ ListsExactly(response'.rows, budget_categories))]_vars

\* C22: getDepartments returns exactly the stored departments, one entry per
\* stored row, an empty list when none are stored, in ascending order of name,
\* and leaves the store as it was.
DepartmentsListedByName ==
    [][call'.op = "getDepartments"
       => (/\ response'.kind = "list"
           /\ ListsExactly(response'.rows, departments)
           /\ \A i \in 1..Len(response'.rows) : \A j \in 1..Len(response'.rows) :
                 i < j => nameRank(response'.rows[i].name) <= nameRank(response'.rows[j].name)
           /\ UNCHANGED store)]_vars

\* C22 witness: getDepartments has returned three departments of different
\* names that were inserted in descending order of name.
DepartmentsReordered ==
    /\ call.op = "getDepartments"
    /\ Len(response.rows) = 3
    /\ response.rows[1].id = 3
    /\ response.rows[2].id = 2
    /\ response.rows[3].id = 1
    /\ nameRank(response.rows[1].name) < nameRank(response.rows[2].name)
    /\ nameRank(response.rows[2].name) < nameRank(response.rows[3].name)

\* C23: every form state for which validateForm returns true produces a
\* createBudgetRequest payload that createBudgetRequestInputSchema accepts.
ValidFormAcceptedBySchema ==
    validateForm(formData) => createBudgetRequestInputSchema(formSubmitData(formData))

RECURSIVE SumOfProducts(_, _)
SumOfProducts(items, n) ==
    IF n = 0 THEN 0
    ELSE SumOfProducts(items, n - 1) + items[n].quantity * items[n].unit_price

returnedRow(caller, op) ==
    /\ caller \in DOMAIN pending
    /\ pending[caller].pc = "returned"
    /\ pending[caller].op = op
    /\ pending[caller].response.kind = "ok"

\* C24: of two submitBudgetRequest calls for the same draft request whose
\* SELECT and UPDATE statements interleave, at most one returns success.  No
\* call here sets a status back to draft, so two calls that both succeed both
\* read the request before either wrote it.
AtMostOneSubmitSucceeds ==
    \A c, d \in Callers :
        /\ c # d
        /\ returnedRow(c, "submitBudgetRequest")
        /\ returnedRow(d, "submitBudgetRequest")
        => pending[c].input.id # pending[d].input.id

\* C25: once an updateBudgetRequest call has returned a row with reviewed_at
\* set, the stored reviewed_at of that request never takes another value, also
\* when the statements of two calls interleave.
ReviewedAtWrittenOnce ==
    [][\A id \in DOMAIN budget_requests :
          (\E c \in Callers :
              /\ returnedRow(c, "updateBudgetRequest")
              /\ pending[c].input.id = id
              /\ pending[c].response.rows[1].reviewed_at # Null)
          => budget_requests'[id].reviewed_at = budget_requests[id].reviewed_at]_vars

\* the fields an update input supplies
supplied(input) == DOMAIN input \ {"id"}

\* C26: when two updateBudgetRequest calls on the same request supply disjoint
\* sets of fields, neither of them status, both sets of changes are in the
\* stored request once both have returned, however their statements interleave.
DisjointUpdatesBothStored ==
    \A c, d \in Callers :
        /\ c # d
        /\ returnedRow(c, "updateBudgetRequest")
        /\ returnedRow(d, "updateBudgetRequest")
        /\ pending[c].input.id = pending[d].input.id
        /\ supplied(pending[c].input) \cap supplied(pending[d].input) = {}
        /\ "status" \notin supplied(pending[c].input) \cup supplied(pending[d].input)
        => \A f \in supplied(pending[c].input) :
               budget_requests[pending[c].input.id][f] = pending[c].input[f]

\* caller c read the request before caller d read it and wrote it after d
\* wrote it: c's row carries the earlier time and d's description; both
\* changes are stored
DisjointUpdatesInterleaved ==
    \E c, d \in Callers :
        /\ c # d
        /\ returnedRow(c, "updateBudgetRequest")
        /\ returnedRow(d, "updateBudgetRequest")
        /\ supplied(pending[c].input) = {"title"}
        /\ supplied(pending[d].input) = {"description"}
        /\ pending[c].response.rows[1].updated_at < pending[d].response.rows[1].updated_at
        /\ pending[c].response.rows[1].description = pending[d].input.description
        /\ budget_requests[1].title = pending[c].input.title
        /\ budget_requests[1].description = pending[d].input.description

\* the request's column is set in the store before the step
wasSet(id, column) ==
    IF id \in DOMAIN budget_requests THEN budget_requests[id][column] # Null ELSE FALSE

\* C27: submitted_at is non-null exactly when the request has at some point
\* had status processing, and reviewed_at exactly when it has at some point
\* been approved or rejected: after every step a stamp is set if and only if
\* it was set before or the request now has such a status, a new request
\* having neither stamp.
StampsFollowStatusHistory ==
    [][\A id \in DOMAIN budget_requests' :
          /\ budget_requests'[id].submitted_at # Null
                <=> (wasSet(id, "submitted_at")
                     \/ budget_requests'[id].status = "processing")
          /\ budget_requests'[id].reviewed_at # Null
                <=> (wasSet(id, "reviewed_at")
                     \/ budget_requests'[id].status \in {"approved", "rejected"})]_vars

\* a request that was submitted and approved is a draft again and keeps both
\* stamps
DraftAgainWithBothStamps ==
    \E id \in DOMAIN budget_requests :
        /\ budget_requests[id].status = "draft"
        /\ budget_requests[id].submitted_at # Null
        /\ budget_requests[id].reviewed_at # Null

\* the faults of a create input that the handler looks for
Mismatched(input) ==
    Abs(input.requested_amount - LineItemsTotal(input.line_items)) > 10

NoDepartment(input) == input.department_id \notin DOMAIN departments

NoCategory(input) == input.category_id \notin DOMAIN budget_categories

\* C29: a createBudgetRequest input that passes the schema and has any of the
\* faults amount mismatch, department not stored, category not stored fails
\* with the first of its faults in that order.
CreateFailsWithFirstFault ==
    (/\ call.op = "createBudgetRequest"
     /\ createBudgetRequestInputSchema(call.input)
     /\ (Mismatched(call.input) \/ NoDepartment(call.input) \/ NoCategory(call.input)))
    => response = Thrown(IF Mismatched(call.input) THEN AmountMismatch
                         ELSE IF NoDepartment(call.input) THEN DepartmentNotFound
                         ELSE CategoryNotFound)

\* a create with a mismatched amount and a department that is not stored has
\* failed with the amount mismatch error
MismatchBeforeDepartment ==
    /\ call.op = "createBudgetRequest"
    /\ createBudgetRequestInputSchema(call.input)
    /\ Mismatched(call.input)
    /\ NoDepartment(call.input)
    /\ response = Thrown(AmountMismatch)

\* C28: a request created and changed through the procedures never has an
\* empty title, description, justification or submitted_by, no
\* submitBudgetRequest fails with an 'incomplete' error, and
\* submitBudgetRequest of a stored draft returns the request.
TextsNeverEmptySubmitOfDraftSucceeds ==
    [][/\ \A id \in DOMAIN budget_requests' :
             /\ budget_requests'[id].title # ""
             /\ budget_requests'[id].description # ""
             /\ budget_requests'[id].justification # ""
             /\ budget_requests'[id].submitted_by # ""
       /\ call'.op = "submitBudgetRequest"
             => /\ response'.message \notin {IncompleteFields, IncompleteSubmitter}
                /\ (/\ call'.input.id \in DOMAIN budget_requests
                    /\ budget_requests[call'.input.id].status = "draft")
                   => response'.kind = "ok"]_vars

\* a draft with the title an update gave it was submitted
RetitledDraftSubmitted ==
    /\ call.op = "submitBudgetRequest"
    /\ response.kind = "ok"
    /\ response.rows[1].title = "Updated"
    /\ response.rows[1].status = "processing"

====
